---- MODULE Spec2Model ----
(***************************************************************************)
(* A model of the PCB defect-detection demo:                               *)
(*   - streamlitapp/streamlit_app.py : the dashboard page script, re-run   *)
(*     top to bottom at every render of a session (ingestion guarded by    *)
(*     st.session_state.images_loaded, the FileLock region, the inference  *)
(*     button handler);                                                    *)
(*   - streamlitapp/utils.py         : exec_python_script;                 *)
(*   - scripts/upload_data.py        : the offline loader.                 *)
(* Each part has its own specification over the shared variables; the      *)
(* variables of the other parts are pinned by its initial predicate.       *)
(***************************************************************************)
EXTENDS Integers, Sequences, FiniteSets, TLC

\* ------------------------------------------------------------------ bounds
\* Two sessions, the least number that can interleave
Sessions == {1, 2}
NumProcs == 2
MaxRenders == 2

Procs == 1..NumProcs
\* fileLockOwner when no process holds the lock
NoProc == 0

\* ------------------------------------------------------------ file names
\* A name is a sequence of characters, so that lower(), endswith() and the
\* quoting of a name in an SQL literal are computed and not assumed.
UpperChars == <<"A","B","C","D","E","F","G","H","I","J","K","L","M",
                "N","O","P","Q","R","S","T","U","V","W","X","Y","Z">>
LowerChars == <<"a","b","c","d","e","f","g","h","i","j","k","l","m",
                "n","o","p","q","r","s","t","u","v","w","x","y","z">>

\* str.lower() on one character
LowerChar(c) ==
  IF \E i \in 1..Len(UpperChars) : UpperChars[i] = c
  THEN LowerChars[CHOOSE i \in 1..Len(UpperChars) : UpperChars[i] = c]
  ELSE c

\* str.lower()
Lower(name) == [i \in 1..Len(name) |-> LowerChar(name[i])]

\* str.endswith(suffix)
EndsWith(name, suffix) ==
  /\ Len(name) >= Len(suffix)
  /\ SubSeq(name, Len(name) - Len(suffix) + 1, Len(name)) = suffix

\* the tuple of extensions of line 81
ImageSuffixes == { <<".","j","p","g">>, <<".","j","p","e","g">>,
                   <<".","p","n","g">>, <<".","g","i","f">> }

IsImageNameCaseSensitive(name) == \E suf \in ImageSuffixes : EndsWith(name, suf)

\* filename.lower().endswith((".jpg", ".jpeg", ".png", ".gif"))
IsImageName(name) == \E suf \in ImageSuffixes : EndsWith(Lower(name), suf)

\* The members of detect.zip: an image with an upper-case extension, a file
\* that is no image, and an image whose name holds a single quote.
FileA == <<"a",".","J","P","G">>
FileB == <<"n",".","t","x","t">>
FileC == <<"c","'",".","p","n","g">>
ZipFiles == {FileA, FileB, FileC}

\* What the application directory (the working directory at start) holds
\* besides the extraction directory: pcb.png (read at line 43) and detect.zip.
PcbPng == <<"p","c","b",".","p","n","g">>
DetectZip == <<"d","e","t","e","c","t",".","z","i","p">>
DetectName == <<"d","e","t","e","c","t">>
AppDirFiles == {PcbPng, DetectZip}

\* A row left in IMAGES_LANDING by an earlier dashboard
StaleName == <<"o","l","d",".","p","n","g">>

\* The order os.listdir returns the entries of a directory in
NameOrder == <<DetectName, DetectZip, PcbPng, FileA, FileB, FileC, StaleName>>
Rank(name) == CHOOSE i \in 1..Len(NameOrder) : NameOrder[i] = name

RECURSIVE ListDir(_)
ListDir(entries) ==
  IF entries = {} THEN <<>>
  ELSE LET first == CHOOSE e \in entries : \A o \in entries : Rank(e) <= Rank(o)
       IN <<first>> \o ListDir(entries \ {first})

\* file bytes and their base64 text: b64encode is injective, and is not the identity
FileBytes(name) == <<"bytes", name>>
B64Encode(bytes) == <<"b64", bytes>>
B64Decode(text) == text[2]

\* one record of IMAGES_LANDING / st.session_state.image_data
ImageRow(name) == [IMAGE_NAME |-> name, BASE64BYTES |-> B64Encode(FileBytes(name))]

VARIABLES
  \* ---- dashboard: per session (st.session_state and the script's locals)
  pc,             \* where the session's current render stands ("idle": between renders)
  renders,        \* number of renders the session has started
  skipped,        \* a render of the session has passed the guard of line 50 without ingesting
  images_loaded,  \* 'images_loaded' in st.session_state
  image_data,     \* st.session_state.image_data
  parent_directory, \* the local of line 51: "app" or "detect"
  extracted_files,  \* the local of line 77
  idx,            \* position of the load / remove loop in extracted_files
  lock,           \* FileLock._lock of the session's FileLock instance is held
  fd,             \* FileLock._fd of the session's FileLock instance is open
  fdLocked,       \* the lock on /tmp/lockfile.LOCK was taken through this fd
  regionErr,      \* the body of the with statement raised
  \* ---- dashboard: shared
  proc,           \* the process each session runs in (as one of its threads)
  cwd,            \* the working directory of each process
  dirExists,      \* <app>/detect exists
  dirFiles,       \* the files of <app>/detect
  fileLockOwner,  \* the process owning the lock on /tmp/lockfile.LOCK, or None
  IMAGES_LANDING  \* the table, as the sequence of its rows

dashVars == <<pc, renders, skipped, images_loaded, image_data, parent_directory,
              extracted_files, idx, lock, fd, fdLocked, regionErr, proc, cwd,
              dirExists, dirFiles, fileLockOwner, IMAGES_LANDING>>

VARIABLES
  \* ---- the inference button handler
  imagesrc,          \* the selected image name of the last run
  output,            \* output_data of the last run (the parsed model response)
  rows,              \* the list rows of the last run
  raised,            \* the last run ended with an exception
  inf_runs,          \* number of clicks of the inference button
  DETECTION_OUTPUTS, \* the table: its columns and its rows
  DETECTIONS         \* the table, as the sequence of its rows

inferVars == <<imagesrc, output, rows, raised, inf_runs, DETECTION_OUTPUTS, DETECTIONS>>

VARIABLES
  \* ---- exec_python_script and its child process
  subprocess_bound,  \* the name subprocess resolves in utils.py
  sc_pc,             \* where the call stands
  child_todo,        \* the lines the child has still to write
  child_rc,          \* the exit status of the child, "None" while it runs
  pipe,              \* the lines written and not yet read
  script_output,     \* the local list
  script_executed,   \* the local flag
  return_code,       \* the local of line 71
  cached,            \* st.session_state[p_cache_id], <<>> while unset
  returned           \* the value returned: "None" before the return, "True", "False"

scriptVars == <<subprocess_bound, sc_pc, child_todo, child_rc, pipe, script_output,
                script_executed, return_code, cached, returned>>

VARIABLES
  ld_pc,               \* where main() stands
  data_dir_exists,     \* os.path.exists(args.data_dir)
  has_not,             \* per group: the sub-folder has its _not sibling
  tree,                \* per slot: the image file and its label file
  unreadable,          \* the slots whose image cannot be opened
  session,             \* the warehouse session: "none", "open", "closed"
  exit_code,           \* the exit status: "None" until sys.exit or the end of main
  labels_df,           \* the local of line 333
  images_df,           \* the local of line 337
  LABELS_TRAIN, train_images_labels, training_data, test_data   \* the tables

loaderVars == <<ld_pc, data_dir_exists, has_not, tree, unreadable, session, exit_code,
                labels_df, images_df, LABELS_TRAIN, train_images_labels,
                training_data, test_data>>

otherThanDash == <<inferVars, scriptVars, loaderVars>>

\* ------------------------------------------------------------- dashboard
DashInit ==
  /\ pc = [s \in Sessions |-> "idle"]
  /\ renders = [s \in Sessions |-> 0]
  /\ skipped = [s \in Sessions |-> FALSE]
  /\ images_loaded = [s \in Sessions |-> FALSE]
  /\ image_data = [s \in Sessions |-> <<>>]
  /\ parent_directory = [s \in Sessions |-> "app"]
  /\ extracted_files = [s \in Sessions |-> <<>>]
  /\ idx = [s \in Sessions |-> 0]
  /\ lock = [s \in Sessions |-> FALSE]
  /\ fd = [s \in Sessions |-> FALSE]
  /\ fdLocked = [s \in Sessions |-> FALSE]
  /\ regionErr = [s \in Sessions |-> FALSE]
  /\ proc \in {f \in [Sessions -> Procs] : f[1] = 1}
  /\ cwd = [p \in Procs |-> "app"]
  /\ dirExists \in BOOLEAN
  /\ dirFiles = IF dirExists THEN {FileA} ELSE {}
  /\ fileLockOwner = NoProc
  /\ IMAGES_LANDING \in {<<>>, <<ImageRow(StaleName)>>}

\* The render ends: by an exception shown by the runtime, or at the end of the page.
EndRender(s) == pc' = [pc EXCEPT ![s] = "idle"]

\* Line 50: if 'images_loaded' not in st.session_state
NeedsIngestionAlways(s) == TRUE
NeedsIngestion(s) == ~images_loaded[s]

\* Lines 22-50 of a render: get_image("snowflakelogo/...") and open('pcb.png')
\* are relative to the working directory of the process; then the guard.
Render(s) ==
  /\ pc[s] = "idle"
  /\ renders[s] < MaxRenders
  /\ renders' = [renders EXCEPT ![s] = @ + 1]
  /\ IF cwd[proc[s]] # "app"
     THEN /\ EndRender(s)                       \* FileNotFoundError at line 27
          /\ skipped' = skipped
     ELSE IF ~NeedsIngestion(s)
          THEN /\ EndRender(s)                  \* the guarded block is skipped
               /\ skipped' = [skipped EXCEPT ![s] = TRUE]
          ELSE /\ pc' = [pc EXCEPT ![s] = "getcwd"]
               /\ skipped' = skipped
  /\ UNCHANGED <<otherThanDash, images_loaded, image_data, parent_directory, extracted_files,
                 idx, lock, fd, fdLocked, regionErr, proc, cwd, dirExists,
                 dirFiles, fileLockOwner, IMAGES_LANDING>>

\* Lines 51-53: parent_directory = os.getcwd()
GetCwd(s) ==
  /\ pc[s] = "getcwd"
  /\ parent_directory' = [parent_directory EXCEPT ![s] = cwd[proc[s]]]
  /\ pc' = [pc EXCEPT ![s] = "truncate"]
  /\ UNCHANGED <<otherThanDash, renders, skipped, images_loaded, image_data, extracted_files,
                 idx, lock, fd, fdLocked, regionErr, proc, cwd, dirExists,
                 dirFiles, fileLockOwner, IMAGES_LANDING>>

\* Line 67: TRUNCATE TABLE IMAGES_LANDING
Truncate(s) ==
  /\ pc[s] = "truncate"
  /\ IMAGES_LANDING' = <<>>
  /\ pc' = [pc EXCEPT ![s] = "enter"]
  /\ UNCHANGED <<otherThanDash, renders, skipped, images_loaded, image_data, parent_directory,
                 extracted_files, idx, lock, fd, fdLocked, regionErr, proc, cwd,
                 dirExists, dirFiles, fileLockOwner>>

\* Lines 57-59: FileLock.__enter__ makes a new threading.Lock, acquires it (a
\* new lock is free, so this never waits) and opens the lock file. When open
\* raises, __enter__ raises, and the with statement does not call __exit__.
EnterOpen(s) ==
  /\ pc[s] = "enter"
  /\ lock' = [lock EXCEPT ![s] = TRUE]
  /\ \/ /\ fd' = [fd EXCEPT ![s] = TRUE]
        /\ pc' = [pc EXCEPT ![s] = "lockf"]
     \/ /\ fd' = fd                              \* open('/tmp/lockfile.LOCK') raises
        /\ EndRender(s)
  /\ UNCHANGED <<otherThanDash, renders, skipped, images_loaded, image_data, parent_directory,
                 extracted_files, idx, fdLocked, regionErr, proc, cwd,
                 dirExists, dirFiles, fileLockOwner, IMAGES_LANDING>>

\* Whether fcntl.lockf(fd, LOCK_EX) can return for the calling session: a POSIX
\* record lock belongs to the process, so it conflicts only with another
\* process's lock.
LockfCanAcquire(s) == fileLockOwner \in {NoProc, proc[s]}

\* Line 60: fcntl.lockf(self._fd, fcntl.LOCK_EX) blocks while it conflicts; it
\* may also raise OSError (no locks left, a deadlock detected), and then
\* __enter__ raises with the mutex acquired and the file open.
EnterLockf(s) ==
  /\ pc[s] = "lockf"
  /\ \/ /\ LockfCanAcquire(s)
        /\ fileLockOwner' = proc[s]
        /\ fdLocked' = [fdLocked EXCEPT ![s] = TRUE]
        /\ pc' = [pc EXCEPT ![s] = "isdir"]
     \/ /\ UNCHANGED <<fileLockOwner, fdLocked>>
        /\ EndRender(s)
  /\ regionErr' = [regionErr EXCEPT ![s] = FALSE]
  /\ UNCHANGED <<otherThanDash, renders, skipped, images_loaded, image_data, parent_directory,
                 extracted_files, idx, lock, fd, proc, cwd,
                 dirExists, dirFiles, IMAGES_LANDING>>

\* os.path.isdir(extracted), extracted = parent_directory/detect
ExtractedIsDir(s) == parent_directory[s] = "app" /\ dirExists

\* Line 71: if not os.path.isdir(extracted)
CheckDir(s) ==
  /\ pc[s] = "isdir"
  /\ pc' = [pc EXCEPT ![s] = IF ExtractedIsDir(s) THEN "exit" ELSE "extract"]
  /\ UNCHANGED <<otherThanDash, renders, skipped, images_loaded, image_data, parent_directory,
                 extracted_files, idx, lock, fd, fdLocked, regionErr, proc, cwd,
                 dirExists, dirFiles, fileLockOwner, IMAGES_LANDING>>

\* Lines 72-73: ZipFile(zip_file_path) and extractall(parent_directory).
\* detect.zip is in the application directory only; extractall may stop with
\* an error after writing some of the members.
Extract(s) ==
  /\ pc[s] = "extract"
  /\ \/ /\ parent_directory[s] = "app"
        /\ dirExists' = TRUE
        /\ dirFiles' = dirFiles \cup ZipFiles
        /\ regionErr' = regionErr
     \/ /\ parent_directory[s] = "app"
        /\ \E part \in (SUBSET ZipFiles) \ {ZipFiles} :
             /\ dirExists' = TRUE
             /\ dirFiles' = dirFiles \cup part
        /\ regionErr' = [regionErr EXCEPT ![s] = TRUE]
     \/ /\ parent_directory[s] # "app"            \* FileNotFoundError: no detect.zip there
        /\ UNCHANGED <<dirExists, dirFiles>>
        /\ regionErr' = [regionErr EXCEPT ![s] = TRUE]
  /\ pc' = [pc EXCEPT ![s] = "exit"]
  /\ UNCHANGED <<otherThanDash, renders, skipped, images_loaded, image_data, parent_directory,
                 extracted_files, idx, lock, fd, fdLocked, proc, cwd,
                 fileLockOwner, IMAGES_LANDING>>

\* Lines 62-64: FileLock.__exit__: self._fd.close() drops every lock the
\* process holds on the file (whichever descriptor took it); then
\* self._lock.release(). An exception of the body propagates afterwards.
ExitRegion(s) ==
  /\ pc[s] = "exit"
  /\ fd' = [fd EXCEPT ![s] = FALSE]
  /\ fdLocked' = [t \in Sessions |-> IF proc[t] = proc[s] THEN FALSE ELSE fdLocked[t]]
  /\ fileLockOwner' = IF fileLockOwner = proc[s] THEN NoProc ELSE fileLockOwner
  /\ lock' = [lock EXCEPT ![s] = FALSE]
  /\ regionErr' = [regionErr EXCEPT ![s] = FALSE]
  /\ pc' = [pc EXCEPT ![s] = IF regionErr[s] THEN "idle" ELSE "chdir"]
  /\ UNCHANGED <<otherThanDash, renders, skipped, images_loaded, image_data, parent_directory,
                 extracted_files, idx, proc, cwd, dirExists, dirFiles,
                 IMAGES_LANDING>>

\* Line 76: os.chdir(extracted) changes the working directory of the process
Chdir(s) ==
  /\ pc[s] = "chdir"
  /\ IF ExtractedIsDir(s)
     THEN /\ cwd' = [cwd EXCEPT ![proc[s]] = "detect"]
          /\ pc' = [pc EXCEPT ![s] = "listdir"]
     ELSE /\ cwd' = cwd                          \* FileNotFoundError
          /\ EndRender(s)
  /\ UNCHANGED <<otherThanDash, renders, skipped, images_loaded, image_data, parent_directory,
                 extracted_files, idx, lock, fd, fdLocked, regionErr, proc,
                 dirExists, dirFiles, fileLockOwner, IMAGES_LANDING>>

\* The entries of the working directory of the session's process
CwdEntries(s) ==
  IF cwd[proc[s]] = "detect" THEN dirFiles
  ELSE AppDirFiles \cup (IF dirExists THEN {DetectName} ELSE {})

\* Lines 77-78: extracted_files = os.listdir(); image_data = []
ListFiles(s) ==
  /\ pc[s] = "listdir"
  /\ IF cwd[proc[s]] = "detect" /\ ~dirExists
     THEN /\ EndRender(s)                        \* the directory was removed meanwhile
          /\ UNCHANGED <<extracted_files, image_data, idx>>
     ELSE /\ extracted_files' = [extracted_files EXCEPT ![s] = ListDir(CwdEntries(s))]
          /\ image_data' = [image_data EXCEPT ![s] = <<>>]
          /\ idx' = [idx EXCEPT ![s] = 1]
          /\ pc' = [pc EXCEPT ![s] = "load"]
  /\ UNCHANGED <<otherThanDash, renders, skipped, images_loaded, parent_directory, lock, fd, fdLocked,
                 regionErr, proc, cwd, dirExists, dirFiles, fileLockOwner,
                 IMAGES_LANDING>>

WritePandasAppendTwice(table, row) == Append(Append(table, row), row)

\* session.write_pandas(..., overwrite=False): one row appended
WritePandasAppend(table, row) == Append(table, row)

\* Lines 80-97: one iteration of the load loop
LoadFile(s) ==
  /\ pc[s] = "load"
  /\ idx[s] <= Len(extracted_files[s])
  /\ LET filename == extracted_files[s][idx[s]] IN
       IF ~IsImageName(filename)
       THEN /\ idx' = [idx EXCEPT ![s] = @ + 1]
            /\ UNCHANGED <<pc, IMAGES_LANDING, image_data>>
       ELSE IF ~(dirExists /\ filename \in dirFiles)
       THEN /\ EndRender(s)                      \* open(image_path) raises
            /\ UNCHANGED <<idx, IMAGES_LANDING, image_data>>
       ELSE \/ /\ IMAGES_LANDING' = WritePandasAppend(IMAGES_LANDING, ImageRow(filename))
               /\ image_data' = [image_data EXCEPT ![s] = Append(@, ImageRow(filename))]
               /\ idx' = [idx EXCEPT ![s] = @ + 1]
               /\ pc' = pc
            \/ /\ EndRender(s)                   \* write_pandas raises
               /\ UNCHANGED <<idx, IMAGES_LANDING, image_data>>
  /\ UNCHANGED <<otherThanDash, renders, skipped, images_loaded, parent_directory, extracted_files,
                 lock, fd, fdLocked, regionErr, proc, cwd, dirExists, dirFiles,
                 fileLockOwner>>

\* The load loop is over
LoadDone(s) ==
  /\ pc[s] = "load"
  /\ idx[s] > Len(extracted_files[s])
  /\ idx' = [idx EXCEPT ![s] = 1]
  /\ pc' = [pc EXCEPT ![s] = "remove"]
  /\ UNCHANGED <<otherThanDash, renders, skipped, images_loaded, image_data, parent_directory,
                 extracted_files, lock, fd, fdLocked, regionErr, proc, cwd,
                 dirExists, dirFiles, fileLockOwner, IMAGES_LANDING>>

\* Lines 100-101: os.remove(filename), a path relative to the working directory
RemoveFile(s) ==
  /\ pc[s] = "remove"
  /\ idx[s] <= Len(extracted_files[s])
  /\ LET filename == extracted_files[s][idx[s]] IN
       IF cwd[proc[s]] = "detect" /\ dirExists /\ filename \in dirFiles
       THEN /\ dirFiles' = dirFiles \ {filename}
            /\ idx' = [idx EXCEPT ![s] = @ + 1]
            /\ pc' = pc
       ELSE /\ EndRender(s)                      \* FileNotFoundError / IsADirectoryError
            /\ UNCHANGED <<dirFiles, idx>>
  /\ UNCHANGED <<otherThanDash, renders, skipped, images_loaded, image_data, parent_directory,
                 extracted_files, lock, fd, fdLocked, regionErr, proc, cwd,
                 dirExists, fileLockOwner, IMAGES_LANDING>>

\* Line 102: os.rmdir(extracted) needs an existing, empty directory
Rmdir(s) ==
  /\ pc[s] = "remove"
  /\ idx[s] > Len(extracted_files[s])
  /\ IF dirExists /\ dirFiles = {}
     THEN /\ dirExists' = FALSE
          /\ pc' = [pc EXCEPT ![s] = "chdir_back"]
     ELSE /\ dirExists' = dirExists
          /\ EndRender(s)
  /\ UNCHANGED <<otherThanDash, renders, skipped, images_loaded, image_data, parent_directory,
                 extracted_files, idx, lock, fd, fdLocked, regionErr, proc, cwd,
                 dirFiles, fileLockOwner, IMAGES_LANDING>>

\* Line 103: os.chdir(parent_directory)
ChdirBack(s) ==
  /\ pc[s] = "chdir_back"
  /\ cwd' = [cwd EXCEPT ![proc[s]] = parent_directory[s]]
  /\ pc' = [pc EXCEPT ![s] = "flag"]
  /\ UNCHANGED <<otherThanDash, renders, skipped, images_loaded, image_data, parent_directory,
                 extracted_files, idx, lock, fd, fdLocked, regionErr, proc,
                 dirExists, dirFiles, fileLockOwner, IMAGES_LANDING>>

\* Line 105: st.session_state.images_loaded = True; the rest of the page follows
SetLoaded(s) ==
  /\ pc[s] = "flag"
  /\ images_loaded' = [images_loaded EXCEPT ![s] = TRUE]
  /\ EndRender(s)
  /\ UNCHANGED <<otherThanDash, renders, skipped, image_data, parent_directory, extracted_files, idx,
                 lock, fd, fdLocked, regionErr, proc, cwd, dirExists, dirFiles,
                 fileLockOwner, IMAGES_LANDING>>

DashStep(s) ==
  \/ Render(s) \/ GetCwd(s) \/ Truncate(s) \/ EnterOpen(s) \/ EnterLockf(s)
  \/ CheckDir(s) \/ Extract(s) \/ ExitRegion(s) \/ Chdir(s) \/ ListFiles(s)
  \/ LoadFile(s) \/ LoadDone(s) \/ RemoveFile(s) \/ Rmdir(s) \/ ChdirBack(s)
  \/ SetLoaded(s)

\* ------------------------------------------------------------- inference
\* The button handler of lines 139-276, run by one session on its cached images.

\* nlargest(5, 'score')
TopN == 5

\* classes_la of lines 165-172
classes_la == 0..5

Min(a, b) == IF a <= b THEN a ELSE b

RemoveAt(seq, i) == SubSeq(seq, 1, i - 1) \o SubSeq(seq, i + 1, Len(seq))

\* DataFrame.nlargest(n, 'score'): the n rows of largest score in descending
\* order, the first occurrence first among equal scores (keep='first')
RECURSIVE NLargest(_, _)
NLargest(n, data) ==
  IF n = 0 \/ data = <<>> THEN <<>>
  ELSE LET i == CHOOSE k \in 1..Len(data) :
                  \A j \in 1..Len(data) :
                     \/ data[j].score < data[k].score
                     \/ (data[j].score = data[k].score /\ j >= k)
       IN <<data[i]>> \o NLargest(n - 1, RemoveAt(data, i))

\* Line 186: 'boxes' in output_data and 'labels' in output_data and 'scores' in output_data
HasAllKeys(output_data) == {"boxes", "labels", "scores"} \subseteq output_data.keys

\* Lines 198-202: pd.DataFrame({'box': boxes, 'label': labels, 'score': scores})
\* needs arrays of one length (ValueError otherwise)
SameLength(output_data) ==
  /\ Len(output_data.boxes) = Len(output_data.scores)
  /\ Len(output_data.labels) = Len(output_data.scores)

DataFrameOf(output_data) ==
  [i \in 1..Len(output_data.scores) |->
     [box |-> output_data.boxes[i], label |-> output_data.labels[i],
      score |-> output_data.scores[i]]]

TopClassesHead(output_data) ==
  SubSeq(DataFrameOf(output_data), 1, Min(TopN, Len(output_data.scores)))

\* Line 205: top_classes = data.nlargest(5, 'score')
TopClasses(output_data) == NLargest(TopN, DataFrameOf(output_data))

\* Lines 213-221: the records appended to rows for one response
RowsOf(filename, image_b64, output_data) ==
  LET top == TopClasses(output_data) IN
    [i \in 1..Len(top) |->
       [filename |-> filename, image_data |-> image_b64, output |-> output_data,
        label |-> top[i].label, box |-> top[i].box, score |-> top[i].score]]

\* Lines 178-251: the loop body for the one row of combined_df. The result is
\* the list rows and whether the body raised (unequal array lengths at line
\* 198, a label outside classes_la at line 238).
LoopBody(filename, image_b64, output_data) ==
  IF ~HasAllKeys(output_data) THEN [rows |-> <<>>, raised |-> FALSE]
  ELSE IF Len(output_data.scores) = 0 THEN [rows |-> <<>>, raised |-> FALSE]
  ELSE IF ~SameLength(output_data) THEN [rows |-> <<>>, raised |-> TRUE]
  ELSE LET r == RowsOf(filename, image_b64, output_data) IN
         [rows |-> r, raised |-> \E i \in 1..Len(r) : r[i].label \notin classes_la]

\* Line 254: the columns of pd.DataFrame(rows): those of the records, and none
\* at all for an empty list
RowColumns == {"filename", "image_data", "output", "label", "box", "score"}
FrameColumns(rowlist) == IF rowlist = <<>> THEN {} ELSE RowColumns

\* Lines 268-270: the statement text holds the name between single quotes
SqlQuoted(name) == <<"'">> \o name \o <<"'">>

\* How the SQL parser reads a single-quoted literal that starts at text[1] and
\* must end the statement: '' stands for one quote, a lone ' ends the literal.
\* The result is the literal's value, or a syntax error (ok is FALSE).
SyntaxError == [ok |-> FALSE, value |-> <<>>]

RECURSIVE ScanLiteral(_, _, _)
ScanLiteral(text, i, acc) ==
  IF i > Len(text) THEN SyntaxError
  ELSE IF text[i] # "'" THEN ScanLiteral(text, i + 1, Append(acc, text[i]))
  ELSE IF i < Len(text) /\ text[i + 1] = "'" THEN ScanLiteral(text, i + 2, Append(acc, "'"))
  ELSE IF i = Len(text) THEN [ok |-> TRUE, value |-> acc]
  ELSE SyntaxError

ParseSqlLiteral(text) == ScanLiteral(text, 2, <<>>)

\* The value the WHERE clause of line 270 compares "filename" with
WhereValue(name) == ParseSqlLiteral(SqlQuoted(name))

\* SELECT ... FROM DETECTION_OUTPUTS WHERE "filename" = <value>
SelectByFilename(table, value) ==
  SelectSeq(table.rows, LAMBDA r : r.filename = value)

NoOutput == [keys |-> {}, boxes |-> <<>>, labels |-> <<>>, scores |-> <<>>]

InferInit ==
  /\ imagesrc = <<>>
  /\ output = NoOutput
  /\ rows = <<>>
  /\ raised = FALSE
  /\ inf_runs = 0
  /\ DETECTION_OUTPUTS = [columns |-> {}, rows |-> <<>>]
  /\ DETECTIONS = <<>>

\* The names the selectbox of line 115 offers to session s
Selectable(s) == {image_data[s][i].IMAGE_NAME : i \in 1..Len(image_data[s])}

\* Line 146: base64_image of the selected row
Base64Of(s, name) ==
  LET i == CHOOSE k \in 1..Len(image_data[s]) : image_data[s][k].IMAGE_NAME = name
  IN image_data[s][i].BASE64BYTES

\* Lines 139-276 for one click, with name selected and resp returned by the model.
\*  - the loop body raised: nothing is written;
\*  - rows is empty: final_df has no columns. A table needs a column, so either
\*    create_dataframe / save_as_table raise (tables untouched), or the table is
\*    replaced by one without "filename" and the INSERT of line 268 raises;
\*  - the quoted name is no SQL literal: DETECTION_OUTPUTS is written and the
\*    INSERT raises;
\*  - otherwise DETECTION_OUTPUTS is overwritten and its rows of that filename
\*    are appended to DETECTIONS.
RunInference(s, name, resp) ==
  /\ images_loaded[s] /\ pc[s] = "idle"
  /\ name \in Selectable(s)
  /\ LET body == LoopBody(name, Base64Of(s, name), resp)
         frame == [columns |-> FrameColumns(body.rows), rows |-> body.rows]
     IN
       /\ imagesrc' = name
       /\ output' = resp
       /\ rows' = body.rows
       /\ inf_runs' = inf_runs + 1
       /\ \/ /\ body.raised
             /\ raised' = TRUE
             /\ UNCHANGED <<DETECTION_OUTPUTS, DETECTIONS>>
          \/ /\ ~body.raised /\ frame.columns = {}
             /\ raised' = TRUE
             /\ UNCHANGED <<DETECTION_OUTPUTS, DETECTIONS>>
          \/ /\ ~body.raised /\ frame.columns = {}
             /\ raised' = TRUE
             /\ DETECTION_OUTPUTS' = frame
             /\ UNCHANGED DETECTIONS
          \/ /\ ~body.raised /\ frame.columns # {}
             /\ ~WhereValue(name).ok
             /\ raised' = TRUE
             /\ DETECTION_OUTPUTS' = frame
             /\ UNCHANGED DETECTIONS
          \/ /\ ~body.raised /\ frame.columns # {}
             /\ WhereValue(name).ok
             /\ raised' = FALSE
             /\ DETECTION_OUTPUTS' = frame
             /\ DETECTIONS' = DETECTIONS \o SelectByFilename(frame, WhereValue(name).value)
  /\ UNCHANGED <<dashVars, scriptVars, loaderVars>>

\* ---- the model responses the runs are given
MaxPred == 6
MaxRuns == 2

\* a box per position, so that a box tells where in the response it stood
BoxAt(i) == <<i, i, i + 10, i + 10>>

\* A response of k predictions whose scores are neither sorted nor distinct
ScoreAt(i) == ((i * 2) % 3) + 1
LabelAt(i) == (i * 5) % 6
ResponseOfSize(k) ==
  [keys |-> {"boxes", "labels", "scores"},
   boxes |-> [i \in 1..k |-> BoxAt(i)],
   labels |-> [i \in 1..k |-> LabelAt(i)],
   scores |-> [i \in 1..k |-> ScoreAt(i)]]

\* The same with some of the three keys absent
WithKeys(resp, keys) ==
  [keys |-> keys,
   boxes |-> IF "boxes" \in keys THEN resp.boxes ELSE <<>>,
   labels |-> IF "labels" \in keys THEN resp.labels ELSE <<>>,
   scores |-> IF "scores" \in keys THEN resp.scores ELSE <<>>]

\* A response with a label that classes_la does not know, and one whose
\* arrays differ in length
BadLabel == [ResponseOfSize(2) EXCEPT !.labels = <<6, 0>>]
BadLength == [ResponseOfSize(2) EXCEPT !.boxes = <<BoxAt(1)>>]

SampleResponses ==
  {ResponseOfSize(k) : k \in 0..MaxPred}
  \cup {WithKeys(ResponseOfSize(2), ks) : ks \in {{"boxes", "labels"}, {"scores"}, {}}}
  \cup {BadLabel, BadLength}

\* The responses of up to MaxPred predictions with any of these scores
Scores == {1, 2, 3}
ResponseOf(k, sc) ==
  [keys |-> {"boxes", "labels", "scores"},
   boxes |-> [i \in 1..k |-> BoxAt(i)],
   labels |-> [i \in 1..k |-> LabelAt(i)],
   scores |-> sc]

Click(s) ==
  /\ inf_runs < MaxRuns
  /\ \E name \in Selectable(s), resp \in SampleResponses : RunInference(s, name, resp)

ClickAny(s) ==
  /\ inf_runs < 1
  /\ \E k \in 0..MaxPred :
       \E sc \in [1..k -> Scores] : RunInference(s, FileA, ResponseOf(k, sc))

\* The dashboard after session 1 has ingested detect.zip
LoadedInit ==
  /\ pc = [s \in Sessions |-> "idle"]
  /\ renders = [s \in Sessions |-> IF s = 1 THEN 1 ELSE 0]
  /\ skipped = [s \in Sessions |-> FALSE]
  /\ images_loaded = [s \in Sessions |-> s = 1]
  /\ image_data = [s \in Sessions |-> IF s = 1 THEN <<ImageRow(FileA), ImageRow(FileC)>> ELSE <<>>]
  /\ parent_directory = [s \in Sessions |-> "app"]
  /\ extracted_files = [s \in Sessions |-> IF s = 1 THEN ListDir(ZipFiles) ELSE <<>>]
  /\ idx = [s \in Sessions |-> IF s = 1 THEN Len(ListDir(ZipFiles)) + 1 ELSE 0]
  /\ lock = [s \in Sessions |-> FALSE]
  /\ fd = [s \in Sessions |-> FALSE]
  /\ fdLocked = [s \in Sessions |-> FALSE]
  /\ regionErr = [s \in Sessions |-> FALSE]
  /\ proc = [s \in Sessions |-> 1]
  /\ cwd = [p \in Procs |-> "app"]
  /\ dirExists = FALSE
  /\ dirFiles = {}
  /\ fileLockOwner = NoProc
  /\ IMAGES_LANDING = <<ImageRow(FileA), ImageRow(FileC)>>

\* ---------------------------------------------------- exec_python_script
\* utils.py lines 54-86, with the child process it starts. utils.py does not
\* import subprocess: unless the host binds the name in the module, line 62
\* raises NameError and nothing below it runs.
MaxLines == 3
\* exit statuses, as the f-string of line 74 prints them
ReturnCodes == {"0", "1"}

\* The entries of the transcript are tuples.
\* a line the child prints
ChildLine(k) == <<"line", k>>
\* what readline() returns at the end of the stream
EmptyLine == <<"">>
\* f'RETURN CODE: {return_code} \n'
ReturnCodeLine(rc) == <<"RETURN CODE: ", rc, " \n">>
\* '\n --- Finished executing script ---'
FinishedMarker == <<"\n --- Finished executing script ---">>

ScriptInit ==
  /\ subprocess_bound \in BOOLEAN
  /\ sc_pc = "call"
  /\ child_todo \in 0..MaxLines
  /\ child_rc = "None"
  /\ pipe = <<>>
  /\ script_output = <<>>
  /\ script_executed = FALSE
  /\ return_code = "None"
  /\ cached = <<>>
  /\ returned = "None"

\* the values the other specifications pin these variables to
ScriptIdle ==
  /\ subprocess_bound = FALSE
  /\ sc_pc = "call"
  /\ child_todo = 0
  /\ child_rc = "None"
  /\ pipe = <<>>
  /\ script_output = <<>>
  /\ script_executed = FALSE
  /\ return_code = "None"
  /\ cached = <<>>
  /\ returned = "None"

ChildRuns == sc_pc \in {"readline", "poll"} /\ child_rc = "None"

\* the child prints a line
ChildWrite ==
  /\ ChildRuns
  /\ child_todo > 0
  /\ pipe' = Append(pipe, ChildLine(child_todo))
  /\ child_todo' = child_todo - 1
  /\ UNCHANGED <<subprocess_bound, sc_pc, child_rc, script_output, script_executed,
                 return_code, cached, returned, dashVars, inferVars, loaderVars>>

\* the child terminates: its end of the pipe closes
ChildExit ==
  /\ ChildRuns
  /\ \E rc \in ReturnCodes : child_rc' = rc
  /\ UNCHANGED <<subprocess_bound, sc_pc, child_todo, pipe, script_output,
                 script_executed, return_code, cached, returned, dashVars, inferVars, loaderVars>>

\* Lines 58-66: the locals and subprocess.Popen
Popen ==
  /\ sc_pc = "call"
  /\ script_executed' = FALSE
  /\ script_output' = <<>>
  /\ sc_pc' = IF subprocess_bound THEN "readline" ELSE "raised"
  /\ UNCHANGED <<subprocess_bound, child_todo, child_rc, pipe, return_code,
                 cached, returned, dashVars, inferVars, loaderVars>>

\* Lines 69-70: output = process.stdout.readline() waits for a line or for the
\* end of the stream, where it returns ''; the line is appended
Readline ==
  /\ sc_pc = "readline"
  /\ \/ /\ pipe # <<>>
        /\ script_output' = Append(script_output, Head(pipe))
        /\ pipe' = Tail(pipe)
     \/ /\ pipe = <<>> /\ child_rc # "None"
        /\ script_output' = Append(script_output, EmptyLine)
        /\ pipe' = pipe
  /\ sc_pc' = "poll"
  /\ UNCHANGED <<subprocess_bound, child_todo, child_rc, script_executed,
                 return_code, cached, returned, dashVars, inferVars, loaderVars>>

AfterTerminationNoCode(rc, rest) == rest

\* Lines 74-79: what the branch of a finished process appends: the return
\* code line, then what readlines() still finds in the pipe
AfterTermination(rc, rest) == <<ReturnCodeLine(rc)>> \o rest

\* Lines 71-81: return_code = process.poll() and the branch on it
Poll ==
  /\ sc_pc = "poll"
  /\ return_code' = child_rc
  /\ IF child_rc = "None"
     THEN /\ sc_pc' = "readline"
          /\ UNCHANGED <<script_output, script_executed, pipe>>
     ELSE /\ script_output' = script_output \o AfterTermination(child_rc, pipe)
          /\ script_executed' = TRUE
          /\ pipe' = <<>>
          /\ sc_pc' = "finish"
  /\ UNCHANGED <<subprocess_bound, child_todo, child_rc, cached, returned,
                 dashVars, inferVars, loaderVars>>

\* Lines 83-86: the marker, the cache entry and the return
Finish ==
  /\ sc_pc = "finish"
  /\ script_output' = Append(script_output, FinishedMarker)
  /\ cached' = script_output'
  /\ returned' = IF script_executed THEN "True" ELSE "False"
  /\ sc_pc' = "done"
  /\ UNCHANGED <<subprocess_bound, child_todo, child_rc, pipe, script_executed,
                 return_code, dashVars, inferVars, loaderVars>>

\* ------------------------------------------------------- the offline loader
\* scripts/upload_data.py: main() and the functions it calls, run as one
\* single-threaded process over a dataset directory.

MaxBoxes == 3

\* ---- the dataset: <data-dir>/<group>/<sub> holds <base>_test.jpg images,
\* <data-dir>/<group>/<sub>_not holds <base>.txt label files
Groups == {"g1", "g2"}
BaseX == <<"x">>
BaseY == <<"y">>
\* The places an image can be at, in the order of the sorted walk: two images
\* of one group, and an image of another group with the base name of the first.
SlotOrder == << <<"g1", BaseX>>, <<"g1", BaseY>>, <<"g2", BaseX>> >>
Slots == {SlotOrder[i] : i \in 1..Len(SlotOrder)}

TestJpg == <<"_","t","e","s","t",".","j","p","g">>
TestSuffix == <<"_","t","e","s","t">>

\* str.replace(old, new): every occurrence, left to right
RECURSIVE Replace(_, _, _)
Replace(str, old, new) ==
  IF Len(str) < Len(old) THEN str
  ELSE IF SubSeq(str, 1, Len(old)) = old
       THEN new \o Replace(SubSeq(str, Len(old) + 1, Len(str)), old, new)
       ELSE <<str[1]>> \o Replace(Tail(str), old, new)

\* The tokens of a label line (line.strip().split())
DigitTokens == <<"0", "1", "2", "3", "4", "5", "6", "7", "8", "9">>
IsDigitToken(tok) == \E i \in 1..Len(DigitTokens) : DigitTokens[i] = tok
\* int(tok): raises ValueError unless tok is an integer literal
IntOk(tok) == IsDigitToken(tok)
IntOf(tok) == (CHOOSE i \in 1..Len(DigitTokens) : DigitTokens[i] = tok) - 1
\* float(tok), in tenths: raises ValueError unless tok is a number
FloatOk(tok) == IsDigitToken(tok) \/ tok = "1.5"
FloatOf(tok) == IF tok = "1.5" THEN 15 ELSE 10 * IntOf(tok)

GoodLine(k) == <<DigitTokens[k + 1], "2", "1.5", "4", DigitTokens[k + 1]>>
ShortLine == <<"1", "2", "3", "4">>
BadClassLine == <<"1", "2", "3", "4", "1.5">>

\* lines whose token count is not 5: two tokens (one no number), none, six
JunkLine == <<"abc", "2">>
BlankLine == <<>>
LongLine == <<"1", "2", "3", "4", "5", "6">>
MixedFile == <<JunkLine, GoodLine(2), BlankLine, GoodLine(1), LongLine>>

\* The label files a dataset is drawn from: empty, one and MaxBoxes well-formed
\* lines, a line of four tokens only, a line whose class is no integer, and
\* well-formed lines among lines of other token counts.
LabelFiles ==
  {<<>>, <<ShortLine>>, <<GoodLine(1), BadClassLine>>, MixedFile}
  \cup {[i \in 1..k |-> GoodLine(i)] : k \in {1, MaxBoxes}}

NoImage == [image |-> FALSE, has_txt |-> FALSE, txt |-> <<>>]
SlotStates ==
  {NoImage, [image |-> TRUE, has_txt |-> FALSE, txt |-> <<>>]}
  \cup {[image |-> TRUE, has_txt |-> TRUE, txt |-> f] : f \in LabelFiles}

\* pd.DataFrame(list of records): no columns when the list is empty
DataFrame(records, columns) ==
  [columns |-> IF records = <<>> THEN {} ELSE columns, rows |-> records]
NoFrame == [columns |-> {}, rows |-> <<>>]

LoaderIdle ==
  /\ ld_pc = "exited"
  /\ data_dir_exists = FALSE
  /\ has_not = [g \in Groups |-> FALSE]
  /\ tree = [a \in Slots |-> NoImage]
  /\ unreadable = {}
  /\ session = "none"
  /\ exit_code = "None"
  /\ labels_df = NoFrame
  /\ images_df = NoFrame
  /\ LABELS_TRAIN = NoFrame
  /\ train_images_labels = NoFrame
  /\ training_data = NoFrame
  /\ test_data = NoFrame

LoaderInit ==
  /\ ld_pc = "start"
  /\ data_dir_exists \in BOOLEAN
  /\ IF data_dir_exists
     THEN /\ has_not \in [Groups -> BOOLEAN]
          /\ tree \in [Slots -> SlotStates]
          /\ unreadable \in {{}, {SlotOrder[1]}}
     ELSE /\ has_not = [g \in Groups |-> FALSE]
          /\ tree = [a \in Slots |-> NoImage]
          /\ unreadable = {}
  /\ session = "none"
  /\ exit_code = "None"
  /\ labels_df = NoFrame
  /\ images_df = NoFrame
  /\ LABELS_TRAIN = NoFrame
  /\ train_images_labels = NoFrame
  /\ training_data = NoFrame
  /\ test_data = NoFrame

\* Lines 52-85: create_session. Session.builder...create() may raise; so may
\* use_database / use_schema / use_role on the created session. The except
\* clause prints hints and calls sys.exit(1); main's try has not been entered.
CreateSession ==
  /\ ld_pc = "start"
  /\ \/ /\ session' = "none"                    \* create() raises
        /\ exit_code' = "1"
        /\ ld_pc' = "exited"
     \/ /\ session' = "open"                    \* use_database/use_schema/use_role raises
        /\ exit_code' = "1"
        /\ ld_pc' = "exited"
     \/ /\ session' = "open"
        /\ exit_code' = exit_code
        /\ ld_pc' = "parse"
  /\ UNCHANGED <<dashVars, inferVars, scriptVars, data_dir_exists, has_not, tree,
                 unreadable, labels_df, images_df, LABELS_TRAIN,
                 train_images_labels, training_data, test_data>>

\* file_name of an image, and the test of lines 135 / 207
ImageFileName(base) == base \o TestJpg
FilenameBase(file_name) == Replace(file_name, TestJpg, <<>>)

\* Lines 146-157: the records of one label file, or a ValueError of float()/int()
LineRaises(parts) ==
  /\ Len(parts) = 5
  /\ ~((\A i \in 1..4 : FloatOk(parts[i])) /\ IntOk(parts[5]))
LineRecordsAtLeastFive(filename_base, parts) ==
  IF Len(parts) >= 5
  THEN << [filename |-> filename_base, xmin |-> FloatOf(parts[1]),
           ymin |-> FloatOf(parts[2]), xmax |-> FloatOf(parts[3]),
           ymax |-> FloatOf(parts[4]), class |-> IntOf(parts[5])] >>
  ELSE <<>>

LineRecords(filename_base, parts) ==
  IF Len(parts) = 5
  THEN << [filename |-> filename_base, xmin |-> FloatOf(parts[1]),
           ymin |-> FloatOf(parts[2]), xmax |-> FloatOf(parts[3]),
           ymax |-> FloatOf(parts[4]), class |-> IntOf(parts[5])] >>
  ELSE <<>>

RECURSIVE FileRecords(_, _)
FileRecords(filename_base, lines) ==
  IF lines = <<>> THEN <<>>
  ELSE LineRecords(filename_base, Head(lines)) \o FileRecords(filename_base, Tail(lines))

\* Lines 111-161: which slots the first walk parses: the image exists, its
\* sub-folder has the _not sibling, and the .txt file exists in it
Parsed(a) ==
  /\ tree[a].image
  /\ EndsWith(ImageFileName(a[2]), TestJpg)
  /\ has_not[a[1]]
  /\ tree[a].has_txt

RECURSIVE ParseFrom(_)
ParseFrom(i) ==
  IF i > Len(SlotOrder) THEN <<>>
  ELSE LET a == SlotOrder[i] IN
       (IF Parsed(a)
        THEN FileRecords(FilenameBase(ImageFileName(a[2])), tree[a].txt)
        ELSE <<>>) \o ParseFrom(i + 1)

ParseRaises ==
  \E a \in Slots : Parsed(a) /\ \E j \in 1..Len(tree[a].txt) : LineRaises(tree[a].txt[j])

LabelColumns == {"filename", "xmin", "ymin", "xmax", "ymax", "class"}

\* Lines 88-167: find_and_parse_labels
find_and_parse_labels == DataFrame(ParseFrom(1), LabelColumns)

\* Line 333 in main's try: a missing data directory is sys.exit(1) (SystemExit
\* passes the except clause, the finally clause runs); a ValueError goes to
\* the except clause, which calls sys.exit(1)
ParseLabels ==
  /\ ld_pc = "parse"
  /\ IF ~data_dir_exists \/ ParseRaises
     THEN /\ exit_code' = "1"
          /\ ld_pc' = "finally"
          /\ labels_df' = labels_df
     ELSE /\ labels_df' = find_and_parse_labels
          /\ ld_pc' = "encode"
          /\ exit_code' = exit_code
  /\ UNCHANGED <<dashVars, inferVars, scriptVars, data_dir_exists, has_not, tree,
                 unreadable, session, images_df, LABELS_TRAIN,
                 train_images_labels, training_data, test_data>>

\* Line 336: set(labels_df['filename'].unique())
LabelFilenames(df) == {df.rows[i].filename : i \in 1..Len(df.rows)}

\* Lines 189-227: the second walk; open() failing on an image is caught and
\* the image is left out
RECURSIVE EncodeFrom(_, _)
EncodeFrom(i, label_filenames) ==
  IF i > Len(SlotOrder) THEN <<>>
  ELSE LET a == SlotOrder[i]
           file_name == ImageFileName(a[2])
           filename_base == FilenameBase(file_name)
       IN (IF /\ tree[a].image
              /\ EndsWith(file_name, TestJpg)
              /\ filename_base \in label_filenames
              /\ a \notin unreadable
           THEN << [Filename |-> filename_base \o TestSuffix,
                    image_data |-> B64Encode(FileBytes(<<a[1], file_name>>))] >>
           ELSE <<>>) \o EncodeFrom(i + 1, label_filenames)

ImageColumns == {"Filename", "image_data"}

\* Lines 170-233: read_and_encode_images
read_and_encode_images(label_filenames) ==
  DataFrame(EncodeFrom(1, label_filenames), ImageColumns)

\* Lines 336-337: labels_df['filename'] is a KeyError on a frame without columns
Encode ==
  /\ ld_pc = "encode"
  /\ IF "filename" \notin labels_df.columns
     THEN /\ exit_code' = "1"
          /\ ld_pc' = "finally"
          /\ images_df' = images_df
     ELSE /\ images_df' = read_and_encode_images(LabelFilenames(labels_df))
          /\ ld_pc' = "tables"
          /\ exit_code' = exit_code
  /\ UNCHANGED <<dashVars, inferVars, scriptVars, data_dir_exists, has_not, tree,
                 unreadable, session, labels_df, LABELS_TRAIN,
                 train_images_labels, training_data, test_data>>

\* Lines 269-271: the labels with Filename = filename + "_test"
LabelForMerge(r) ==
  [xmin |-> r.xmin, ymin |-> r.ymin, xmax |-> r.xmax, ymax |-> r.ymax,
   class |-> r.class, Filename |-> r.filename \o TestSuffix]

\* the rows of the inner join of one label row with the image rows
RECURSIVE JoinRow(_, _)
JoinRow(l, images) ==
  IF images = <<>> THEN <<>>
  ELSE (IF Head(images).Filename = l.Filename
        THEN << [xmin |-> l.xmin, ymin |-> l.ymin, xmax |-> l.xmax, ymax |-> l.ymax,
                 class |-> l.class,
                 Filename |-> Replace(l.Filename, TestSuffix, <<>>),
                 image_data |-> Head(images).image_data] >>
        ELSE <<>>) \o JoinRow(l, Tail(images))

RECURSIVE JoinRows(_, _)
JoinRows(labels, images) ==
  IF labels = <<>> THEN <<>>
  ELSE JoinRow(LabelForMerge(Head(labels)), images) \o JoinRows(Tail(labels), images)

MergedColumns == {"xmin", "ymin", "xmax", "ymax", "class", "Filename", "image_data"}

\* Lines 274-277: pd.merge(how='inner', on='Filename'), then the _test suffix removed
merged_df(labels, images) ==
  [columns |-> MergedColumns, rows |-> JoinRows(labels.rows, images.rows)]

NTestFloor(n) == n \div 10

\* train_test_split(test_size=0.1): n_test = ceil(0.1 * n)
NTest(n) == (n + 9) \div 10

\* the rows of a frame at the positions of keep, in their order
RECURSIVE RowsAt(_, _, _)
RowsAt(records, keep, i) ==
  IF i > Len(records) THEN <<>>
  ELSE (IF i \in keep THEN <<records[i]>> ELSE <<>>) \o RowsAt(records, keep, i + 1)

\* Lines 236-314: create_tables. writes is the number of write_pandas calls
\* that succeed before one raises (4: none raises); test is the set of
\* positions the split sends to the test set (the shuffle of random_state=42
\* is not modelled: the tables are compared as collections of rows).
TablesAfter(writes, test) ==
  LET merged == merged_df(labels_df, images_df)
      n == Len(merged.rows)
      mergeOk == "Filename" \in images_df.columns
      splitOk == mergeOk /\ n - NTest(n) >= 1
      done1 == writes >= 1
      done2 == done1 /\ mergeOk /\ writes >= 2
      done3 == done2 /\ splitOk /\ writes >= 3
      done4 == done3 /\ writes >= 4
  IN [LABELS_TRAIN |-> IF done1 THEN labels_df ELSE LABELS_TRAIN,
      train_images_labels |-> IF done2 THEN merged ELSE train_images_labels,
      training_data |-> IF done3
                        THEN [merged EXCEPT !.rows = RowsAt(merged.rows, (1..n) \ test, 1)]
                        ELSE training_data,
      test_data |-> IF done4
                    THEN [merged EXCEPT !.rows = RowsAt(merged.rows, test, 1)]
                    ELSE test_data,
      ok |-> done4]

SplitChoices ==
  LET n == Len(merged_df(labels_df, images_df).rows)
  IN {t \in SUBSET (1..n) : Cardinality(t) = NTest(n)}

\* Line 340 in main's try; an exception goes to the except clause (sys.exit(1))
CreateTables ==
  /\ ld_pc = "tables"
  /\ \E writes \in 0..4 : \E test \in
         (IF "Filename" \in images_df.columns THEN SplitChoices ELSE {{}}) :
       LET after == TablesAfter(writes, test) IN
         /\ LABELS_TRAIN' = after.LABELS_TRAIN
         /\ train_images_labels' = after.train_images_labels
         /\ training_data' = after.training_data
         /\ test_data' = after.test_data
         /\ exit_code' = IF after.ok THEN "0" ELSE "1"
  /\ ld_pc' = "finally"
  /\ UNCHANGED <<dashVars, inferVars, scriptVars, data_dir_exists, has_not, tree,
                 unreadable, session, labels_df, images_df>>

\* Lines 357-358: finally: session.close(); then the process exits
Finally ==
  /\ ld_pc = "finally"
  /\ session' = "closed"
  /\ ld_pc' = "exited"
  /\ UNCHANGED <<dashVars, inferVars, scriptVars, data_dir_exists, has_not, tree,
                 unreadable, exit_code, labels_df, images_df, LABELS_TRAIN,
                 train_images_labels, training_data, test_data>>

\* ---------------------------------------------------------- specifications
vars == <<dashVars, inferVars, scriptVars, loaderVars>>

Init == DashInit /\ InferInit /\ ScriptIdle /\ LoaderIdle

Next == \E s \in Sessions : DashStep(s)

Spec == Init /\ [][Next]_vars

\* inference runs of one session on sample responses
InitInfer == LoadedInit /\ InferInit /\ ScriptIdle /\ LoaderIdle
NextInfer == Click(1)
SpecInfer == InitInfer /\ [][NextInfer]_vars

\* one inference run on any response
NextTop5 == ClickAny(1)
SpecTop5 == InitInfer /\ [][NextTop5]_vars

\* one call of exec_python_script
InitScript == LoadedInit /\ InferInit /\ ScriptInit /\ LoaderIdle
NextScript == Popen \/ Readline \/ Poll \/ Finish \/ ChildWrite \/ ChildExit
SpecScript == InitScript /\ [][NextScript]_vars

\* one run of the offline loader
InitLoader == LoadedInit /\ InferInit /\ ScriptIdle /\ LoaderInit
NextLoader == CreateSession \/ ParseLabels \/ Encode \/ CreateTables \/ Finally
SpecLoader == InitLoader /\ [][NextLoader]_vars

\* ------------------------------------------------------------- properties

\* C1: once a render of a session has completed the ingestion and set
\* images_loaded, the flag stays set, the session never enters the guarded
\* sequence again (no TRUNCATE, no extraction, no append by it), its cache
\* is left alone, and a later render of it changes neither IMAGES_LANDING
\* nor the extraction directory.
C1_IngestOnce ==
  [][\A s \in Sessions :
       images_loaded[s] =>
         /\ images_loaded'[s]
         /\ pc'[s] = "idle"
         /\ image_data'[s] = image_data[s]
         /\ (renders'[s] # renders[s] =>
               /\ IMAGES_LANDING' = IMAGES_LANDING
               /\ dirExists' = dirExists
               /\ dirFiles' = dirFiles)]_vars

\* a session that has ingested was rendered again and passed the guard
C1_LaterRender == \E s \in Sessions : images_loaded[s] /\ skipped[s] /\ renders[s] >= 2

\* the sessions inside the region guarded by FileLock (lines 71-73 and __exit__)
InRegion(s) == pc[s] \in {"isdir", "extract", "exit"}

\* C2: at most one session is inside the region guarded by FileLock at any
\* time, whether the sessions are threads of one process or run in separate
\* processes.
C2_MutualExclusion ==
  \A s, t \in Sessions : (s # t /\ InRegion(s)) => ~InRegion(t)

\* where a session holds a FileLock: from the second acquisition to __exit__
InLockScope(s) == pc[s] \in {"lockf", "isdir", "extract", "exit"}

\* C3: a session outside the guarded region (and not in the middle of
\* acquiring) holds neither the in-process mutex nor the lock file.
C3_LocksReleased ==
  \A s \in Sessions : ~InLockScope(s) => (~lock[s] /\ ~fd[s] /\ ~fdLocked[s])

\* the part of a name after its last "."
Extension(name) ==
  LET dots == {i \in 1..Len(name) : name[i] = "."}
  IN IF dots = {} THEN <<>>
     ELSE SubSeq(name, (CHOOSE i \in dots : \A j \in dots : j <= i) + 1, Len(name))

HasImageExtension(name) ==
  Lower(Extension(name)) \in {<<"j","p","g">>, <<"j","p","e","g">>, <<"p","n","g">>, <<"g","i","f">>}

NamePayloadPairs(table) ==
  {<<table[i].IMAGE_NAME, table[i].BASE64BYTES>> : i \in 1..Len(table)}

\* C4: when a session has completed the ingestion and no other session has
\* rendered, IMAGES_LANDING holds exactly one row per listed file with an
\* image extension (any case), each with the base64 text of that file's bytes,
\* and no other row; the session's cache holds the same (name, payload) pairs.
C4_TableMatchesFiles ==
  \A s \in Sessions :
    (images_loaded[s] /\ \A t \in Sessions \ {s} : renders[t] = 0) =>
      LET listed == {extracted_files[s][i] : i \in 1..Len(extracted_files[s])}
          wanted == {f \in listed : HasImageExtension(f)}
      IN /\ Len(IMAGES_LANDING) = Cardinality(wanted)
         /\ NamePayloadPairs(IMAGES_LANDING) = {<<f, B64Encode(FileBytes(f))>> : f \in wanted}
         /\ Len(image_data[s]) = Len(IMAGES_LANDING)
         /\ NamePayloadPairs(image_data[s]) = NamePayloadPairs(IMAGES_LANDING)

\* a lone session has ingested the whole archive, upper-case extension included
C4_Ingested ==
  \E s \in Sessions :
    /\ images_loaded[s]
    /\ \A t \in Sessions \ {s} : renders[t] = 0
    /\ Len(extracted_files[s]) = Cardinality(ZipFiles)
    /\ Len(IMAGES_LANDING) = 2
    /\ \E i \in 1..Len(IMAGES_LANDING) : IMAGES_LANDING[i].IMAGE_NAME = FileA

\* the position in the response a retained row came from (BoxAt marks it)
OriginOf(row) == row.box[1]

\* C5: for a response of K >= 1 predictions the run retains min(K,5) rows;
\* each is the (box, label, score) of one position of the response, no
\* position twice; they are in descending order of score; and no entry left
\* out has a higher score than a retained one.
C5_TopFive ==
  (inf_runs = 1 /\ Len(output.scores) >= 1) =>
    LET K == Len(output.scores)
        kept == {OriginOf(rows[i]) : i \in 1..Len(rows)}
    IN /\ Len(rows) = Min(K, 5)
       /\ Cardinality(kept) = Len(rows)
       /\ \A i \in 1..Len(rows) :
            /\ OriginOf(rows[i]) \in 1..K
            /\ rows[i].box = output.boxes[OriginOf(rows[i])]
            /\ rows[i].label = output.labels[OriginOf(rows[i])]
            /\ rows[i].score = output.scores[OriginOf(rows[i])]
       /\ \A i, j \in 1..Len(rows) : i < j => rows[i].score >= rows[j].score
       /\ \A k \in (1..K) \ kept : \A i \in 1..Len(rows) : output.scores[k] <= rows[i].score

\* a response of more than five predictions whose last entry was retained
\* ahead of an earlier, lower-scoring one
C5_Selected ==
  /\ inf_runs = 1
  /\ Len(output.scores) > 5
  /\ Len(rows) = 5
  /\ OriginOf(rows[1]) = Len(output.scores)
  /\ \E k \in 1..5 : \A i \in 1..Len(rows) : OriginOf(rows[i]) # k

\* C6: a run whose response lacks one of the keys boxes, labels, scores
\* produces no rows and ends without an exception.
C6_MissingKeysNoException ==
  (inf_runs > 0 /\ ~HasAllKeys(output)) => (rows = <<>> /\ ~raised)

\* a response of K >= 1 predictions with arrays of one length and known labels
WellFormed(output_data) ==
  /\ HasAllKeys(output_data)
  /\ SameLength(output_data)
  /\ Len(output_data.scores) >= 1
  /\ \A i \in 1..Len(output_data.labels) : output_data.labels[i] \in classes_la

\* C7: every run on image X with K >= 1 predictions appends exactly min(K,5)
\* rows to DETECTIONS, all with filename X, and leaves the rows already there
\* as they were.
C7_AppendOnly ==
  [][(inf_runs' = inf_runs + 1 /\ WellFormed(output')) =>
       /\ Len(DETECTIONS') = Len(DETECTIONS) + Min(Len(output'.scores), 5)
       /\ SubSeq(DETECTIONS', 1, Len(DETECTIONS)) = DETECTIONS
       /\ \A i \in (Len(DETECTIONS) + 1)..Len(DETECTIONS') :
            DETECTIONS'[i].filename = imagesrc']_vars

IsChildLine(entry) == Len(entry) = 2 /\ entry[1] = "line"

\* exec_python_script returns True only with termination observed by poll()
ReturnsAfterTermination ==
  returned = "True" => (return_code \in ReturnCodes /\ return_code = child_rc)

C9_ClosedOnExit ==
  (ld_pc = "exited" /\ exit_code # "None") => session # "open"

\* an image that has annotations of its own: its sub-folder has the _not
\* sibling, which holds its .txt file with at least one line of five fields
Annotated(a) ==
  /\ tree[a].image
  /\ has_not[a[1]]
  /\ tree[a].has_txt
  /\ \E j \in 1..Len(tree[a].txt) : Len(tree[a].txt[j]) = 5

\* C10: read_and_encode_images yields one record per image that has
\* annotations of its own, and none for any other image (every image being readable).
C10_ExactlyAnnotated ==
  (ld_pc = "tables" /\ unreadable = {}) =>
     Len(images_df.rows) = Cardinality({a \in Slots : Annotated(a)})

\* the number of annotations parsed for the image at a slot
AnnotationsOf(a) ==
  IF Parsed(a) THEN Cardinality({j \in 1..Len(tree[a].txt) : Len(tree[a].txt[j]) = 5}) ELSE 0

\* the annotations whose own image was read and encoded, over the slots from i on
RECURSIVE AnnotationsWithImageFrom(_)
AnnotationsWithImageFrom(i) ==
  IF i > Len(SlotOrder) THEN 0
  ELSE (IF SlotOrder[i] \notin unreadable THEN AnnotationsOf(SlotOrder[i]) ELSE 0)
       + AnnotationsWithImageFrom(i + 1)

\* C11: once train_images_labels is written it has one row per parsed
\* annotation whose image was encoded, and no annotation has more than one row.
C11_OneRowPerAnnotation ==
  train_images_labels.columns # {} =>
    Len(train_images_labels.rows) = AnnotationsWithImageFrom(1)

\* a line of five tokens that float() and int() accept
WellFormedLine(parts) ==
  /\ Len(parts) = 5
  /\ \A i \in 1..4 : FloatOk(parts[i])
  /\ IntOk(parts[5])

\* the position in a file of its n-th line of five tokens
NthLine5(lines, n) ==
  CHOOSE j \in 1..Len(lines) :
    /\ Len(lines[j]) = 5
    /\ Cardinality({k \in 1..j : Len(lines[k]) = 5}) = n

\* the record wanted for the n-th five-token line of the label file at slot a
ExpectedRecord(a, n) ==
  LET parts == tree[a].txt[NthLine5(tree[a].txt, n)]
  IN [filename |-> a[2], xmin |-> FloatOf(parts[1]), ymin |-> FloatOf(parts[2]),
      xmax |-> FloatOf(parts[3]), ymax |-> FloatOf(parts[4]), class |-> IntOf(parts[5])]

\* the number of records of the files walked before the i-th slot
RECURSIVE RowsBefore(_)
RowsBefore(i) == IF i <= 1 THEN 0 ELSE RowsBefore(i - 1) + AnnotationsOf(SlotOrder[i - 1])

\* C12: when every five-token line of the parsed files is well-formed, the
\* parsing step ends without an error whatever the other lines hold, and
\* yields, file after file, exactly one record per five-token line in file
\* order, with the coordinates, the class id and the image's base filename.
C12_ParseLines ==
  [][(/\ ld_pc = "parse"
      /\ data_dir_exists
      /\ \A a \in Slots : Parsed(a) =>
            \A j \in 1..Len(tree[a].txt) :
               Len(tree[a].txt[j]) = 5 => WellFormedLine(tree[a].txt[j]))
     => /\ ld_pc' = "encode"
        /\ Len(labels_df'.rows) = RowsBefore(Len(SlotOrder) + 1)
        /\ \A i \in 1..Len(SlotOrder) : \A n \in 1..AnnotationsOf(SlotOrder[i]) :
              labels_df'.rows[RowsBefore(i) + n] = ExpectedRecord(SlotOrder[i], n)]_vars

\* a file with well-formed lines among lines of other token counts was parsed
C12_MixedParsed ==
  /\ ld_pc = "encode"
  /\ \E a \in Slots : Parsed(a) /\ tree[a].txt = MixedFile
  /\ Len(labels_df.rows) >= 3

\* how often a row occurs in a sequence of rows
Occurrences(records, r) == Cardinality({i \in 1..Len(records) : records[i] = r})

RowsIn(records) == {records[i] : i \in 1..Len(records)}

\* C13: after create_tables has completed, every row of train_images_labels
\* is in exactly one of training_data and test_data (counted with its
\* multiplicity), neither table has another row, and test_data holds a tenth
\* of the rows, rounded up, training_data the rest.
C13_SplitPartitions ==
  (ld_pc \in {"finally", "exited"} /\ exit_code = "0") =>
    LET joined == train_images_labels.rows
        n == Len(joined)
    IN /\ \A r \in RowsIn(joined) \cup RowsIn(training_data.rows) \cup RowsIn(test_data.rows) :
            Occurrences(training_data.rows, r) + Occurrences(test_data.rows, r)
              = Occurrences(joined, r)
       /\ 10 * Len(test_data.rows) >= n
       /\ 10 * (Len(test_data.rows) - 1) < n
       /\ Len(training_data.rows) = n - Len(test_data.rows)
       /\ Len(training_data.rows) >= 1

\* a completed run whose joined table has more than ten rows, two of them in test_data
C13_SplitDone ==
  /\ ld_pc = "exited"
  /\ exit_code = "0"
  /\ Len(train_images_labels.rows) > 10
  /\ Len(test_data.rows) = 2
  /\ Len(training_data.rows) = Len(train_images_labels.rows) - 2

\* the rows of a table for an image name
RowsNamed(table, name) == {i \in 1..Len(table) : table[i].IMAGE_NAME = name}

\* the sessions whose cache holds an image name
SessionsCaching(name) == {s \in Sessions : RowsNamed(image_data[s], name) # {}}

\* C14: truncates and appends are made outside the FileLock region, and
\* rows of one image name in IMAGES_LANDING come from different sessions:
\* a name with more than one row has at most one row per session that
\* appended it (and holds it in its cache) since the last truncate.
C14_DuplicatesAcrossSessions ==
  /\ \A s \in Sessions : pc[s] \in {"truncate", "load"} => ~fdLocked[s]
  /\ \A i \in 1..Len(IMAGES_LANDING) :
       LET name == IMAGES_LANDING[i].IMAGE_NAME
       IN Cardinality(RowsNamed(IMAGES_LANDING, name)) > 1 =>
            Cardinality(RowsNamed(IMAGES_LANDING, name)) <= Cardinality(SessionsCaching(name))

\* both sessions have ingested, none is rendering, and IMAGES_LANDING is left
\* with two rows for the same image
C14_DoubleAppend ==
  /\ \A s \in Sessions : pc[s] = "idle" /\ renders[s] >= 1
  /\ \E s \in Sessions : images_loaded[s]
  /\ Cardinality(RowsNamed(IMAGES_LANDING, FileA)) = 2
  /\ \A s \in Sessions : RowsNamed(image_data[s], FileA) # {}

\* C15: images_loaded is set only by the last step of the ingestion, which is
\* reached only after the load loop has ended, every listed file and the
\* extraction directory have been removed and the working directory has
\* been restored; a render that ends earlier leaves the flag unset, and the
\* next render of that session enters the guarded sequence again.
C15_FlagLast ==
  [][\A s \in Sessions :
       /\ (images_loaded'[s] /\ ~images_loaded[s]) => pc[s] = "flag"
       /\ (pc'[s] = "flag" /\ pc[s] # "flag") =>
            (pc[s] = "chdir_back" /\ cwd'[proc[s]] = parent_directory[s])
       /\ (pc'[s] = "chdir_back" /\ pc[s] # "chdir_back") =>
            /\ pc[s] = "remove"
            /\ idx[s] > Len(extracted_files[s])
            /\ ~dirExists'
            /\ dirFiles' = {}
       /\ (pc[s] \notin {"idle", "flag"} /\ pc'[s] = "idle") => ~images_loaded'[s]
       /\ (/\ pc[s] = "idle"
           /\ ~images_loaded[s]
           /\ renders[s] >= 1
           /\ renders'[s] = renders[s] + 1) => pc'[s] = "getcwd"]_vars

====
